---- MODULE Spec2Model ----
(***************************************************************************)
(* Model of the GitHub-backed gallery store of the portfolio application:  *)
(* src/services/githubService.ts (fetchGalleryFromGitHub,                  *)
(* uploadImageToGitHub, updateGalleryManifest, deleteArtworkFromGitHub).   *)
(*                                                                         *)
(* Every `await fetch(...)` of the source is one atomic step of the        *)
(* calling operation: the request reaches the store, the store answers,    *)
(* and the synchronous code up to the next await runs.  Operations of      *)
(* different callers interleave between those steps.                       *)
(*                                                                         *)
(* Strings that the code takes apart (URLs, paths) are sequences of the    *)
(* segments between "/" characters.                                        *)
(***************************************************************************)
EXTENDS Integers, Sequences, FiniteSets, TLC

(***************************************************************************)
(* Bounds of the model.                                                    *)
(***************************************************************************)
MaxOps == 2
MaxIds == 3
MaxClock == 2

\* The callers whose operations may overlap.
Procs == {"w1", "w2"}
Ids == 1..MaxIds

(***************************************************************************)
(* Repository configurations handed to the service functions.              *)
(***************************************************************************)
BASE_URL == <<"https:", "", "api.github.com">>
RAW_HOST == "raw.githubusercontent.com"

CfgAdmin == [owner |-> "o", repo |-> "r", branch |-> "", token |-> "t"]
CfgVisitor == [owner |-> "o", repo |-> "r", branch |-> "main", token |-> ""]
CfgUnset == [owner |-> "", repo |-> "r", branch |-> "main", token |-> ""]
Configs == {CfgAdmin, CfgVisitor, CfgUnset}

\* Variant: the credential check is missing.
HasTokenUnchecked(config) == TRUE

\* if (!config.token) throw new Error("Authentication required")
HasToken(config) == config.token # ""

\* const branch = config.branch || 'main'
BranchOf(config) == IF config.branch = "" THEN "main" ELSE config.branch

(***************************************************************************)
(* Artwork records and the image URLs they carry.                          *)
(***************************************************************************)
UrlRaw == <<"https:", "", RAW_HOST, "o", "r", "main", "images", "a.jpg">>
UrlCdn == <<"https:", "", "cdn.example", "x", "images", "b.jpg">>
UrlPlain == <<"https:", "", "cdn.example", "pics", "c.jpg">>
UrlRelative == <<"", "images", "d.jpg">>
UrlBadEscape == <<"https:", "", RAW_HOST, "o", "r", "main", "images", "50%.jpg">>
UrlNew == <<"https:", "", RAW_HOST, "o", "r", "main", "images", "e.jpg">>
Urls == {UrlNew, UrlRaw, UrlCdn, UrlPlain, UrlRelative, UrlBadEscape}

Artwork(id, url) == [id |-> id, imageUrl |-> url]
Artworks == {Artwork(id, url) : id \in Ids, url \in Urls}

(***************************************************************************)
(* A stored file is its content: a JSON array of records, JSON that is no  *)
(* array (null, an object), text that is no JSON, or bytes that are no     *)
(* UTF-8 text and no JSON either.  A parsed JSON value is an array of      *)
(* records or something else.                                              *)
(***************************************************************************)
Absent == [kind |-> "absent", items |-> <<>>]
ArrayFile(items) == [kind |-> "array", items |-> items]
ObjectFile == [kind |-> "object", items |-> <<>>]
NullFile == [kind |-> "null", items |-> <<>>]
BadJsonFile == [kind |-> "badjson", items |-> <<>>]
BadUtf8File == [kind |-> "badutf8", items |-> <<>>]

JsonArray(items) == [kind |-> "array", items |-> items]
JsonObject == [kind |-> "object", items |-> <<>>]
JsonNull == [kind |-> "null", items |-> <<>>]

\* The version token of a stored file is the hash of its content; an image
\* file never changes, so its path stands for its content.
NoSha == [kind |-> "none", items |-> <<>>]
ShaOf(file) == file
BlobSha(path) == [kind |-> "blob", items |-> <<>>, path |-> path]

VARIABLES
  manifest,   \* gallery.json at the configured branch of the store
  mirror,     \* gallery.json as the raw-content mirror currently serves it
  assets,     \* paths of the image files in the store
  now,        \* Date.now()
  nextId,     \* crypto.randomUUID(): the next unused id
  started,    \* number of operations started so far
  pc,         \* per caller: position in the running operation
  op,         \* per caller: the operation and its arguments
  sha,        \* per caller: version token read by the operation
  cur,        \* per caller: currentArtworks
  imagePath,  \* per caller: asset path derived by deleteArtworkFromGitHub
  res,        \* per caller: outcome reported to the caller
  reqs,       \* per caller: requests issued by the running operation
  repoConfig, \* App: the active repository configuration
  stored,     \* localStorage entry under CONFIG_KEY
  appPc,      \* App: before or after the effect that loads the configuration
  boots,      \* number of times the page was loaded
  panel,      \* AdminPanel: mounted, localConfig, error, configSuccess
  save,       \* the running saveSettings: position, config, isValid
  wire,       \* the text of a manifest on its way to the store and back
  viewMode,       \* App: GALLERY, LOGIN or ADMIN
  passwordInput,  \* App: the text of the password field
  loginError,     \* App: the message under the password field, or null
  artworks,       \* App: the displayed list
  isLoadingData,  \* App: the loading flag
  loads,          \* callers whose loadGalleryData awaits its fetch
  loadedFor       \* owner and repo the load effect last ran for

\* The state of the service calls, and the state of the view layer and of
\* the text in transit.
svc == <<manifest, mirror, assets, now, nextId, started, pc, op, sha, cur,
         imagePath, res, reqs>>
gallery == <<viewMode, passwordInput, loginError, artworks, isLoadingData,
             loads, loadedFor>>
ui == <<repoConfig, stored, appPc, boots, panel, save, wire, viewMode,
        passwordInput, loginError, artworks, isLoadingData, loads, loadedFor>>

vars == <<manifest, mirror, assets, now, nextId, started, pc, op, sha, cur,
          imagePath, res, reqs, repoConfig, stored, appPc, boots, panel, save,
          wire, viewMode, passwordInput, loginError, artworks, isLoadingData,
          loads, loadedFor>>

store == <<manifest, assets>>

NoOp == [kind |-> "none", config |-> CfgUnset, artwork |-> Artwork(0, <<>>),
         file |-> ""]
NoRes == [st |-> "none", val |-> JsonArray(<<>>), url |-> <<>>]
Ok == [st |-> "ok", val |-> JsonArray(<<>>), url |-> <<>>]
Failed(msg) == [st |-> msg, val |-> JsonArray(<<>>), url |-> <<>>]

Req(method, target, token, out) ==
  [method |-> method, target |-> target, sha |-> token, out |-> out]

(***************************************************************************)
(* The store: the GitHub Contents API as the requests of the source see    *)
(* it.  A PUT is accepted when it names the current version of the file,   *)
(* or names none and the file does not exist.                              *)
(***************************************************************************)
StoreAccepts(file, token) ==
  IF file = Absent THEN token = NoSha ELSE token = ShaOf(file)

\* Outcomes of a GET of a file through the content API: the request fails
\* in transport, or is answered with an error status, not-found, or 200.
\* A 200 answer carries the sha and the content of the file, or the sha
\* and an empty content field (a file too large to be inlined): the case
\* that `if (data.content)` tells apart.
GetOutcomes(file) ==
  {"neterr", "error"} \cup
  (IF file = Absent THEN {"notfound"} ELSE {"ok", "ok_nocontent"})

\* Outcomes of a PUT or DELETE: transport failure, error status, or the
\* store's decision on the version token.
WriteOutcomes == {"neterr", "error", "store"}

\* b64_to_utf8 followed by JSON.parse, on the content of a stored file
Decodes(file) == file.kind \in {"array", "object", "null"}
ParseFile(file) ==
  IF file.kind = "array" THEN JsonArray(file.items)
  ELSE IF file.kind = "null" THEN JsonNull
  ELSE JsonObject

\* utf8_to_b64(JSON.stringify(updatedArtworks, null, 2))
EncodeManifest(items) == ArrayFile(items)

(***************************************************************************)
(* Initial state: the store holds no manifest, a manifest of records with  *)
(* distinct ids, or a gallery.json that is not a manifest; no operation    *)
(* is running.                                                             *)
(***************************************************************************)
InitManifests ==
  {Absent, ArrayFile(<<>>), ObjectFile, BadJsonFile, BadUtf8File,
   ArrayFile(<<Artwork(1, UrlRaw)>>),
   ArrayFile(<<Artwork(2, UrlCdn), Artwork(1, UrlRaw)>>)}

PathOfRaw == <<"images", "a.jpg">>
PathOfCdn == <<"images", "b.jpg">>

ServiceInitWith(files) ==
  /\ manifest \in files
  /\ mirror = manifest
  /\ assets = {PathOfRaw, PathOfCdn}
  /\ now = 1
  /\ nextId = 1 + Len(manifest.items)
  /\ started = 0
  /\ pc = [p \in Procs |-> "idle"]
  /\ op = [p \in Procs |-> NoOp]
  /\ sha = [p \in Procs |-> NoSha]
  /\ cur = [p \in Procs |-> JsonArray(<<>>)]
  /\ imagePath = [p \in Procs |-> <<>>]
  /\ res = [p \in Procs |-> NoRes]
  /\ reqs = [p \in Procs |-> <<>>]

ServiceInit == ServiceInitWith(InitManifests)

(***************************************************************************)
(* The configuration kept by App and its copy in local storage.  A parsed  *)
(* JSON object is a function from the names of its fields to their values. *)
(***************************************************************************)
PUBLIC_REPO_CONFIG == CfgVisitor

ConfigFields == {"owner", "repo", "branch", "token"}

\* What localStorage.getItem(CONFIG_KEY) returns: null, or the stored
\* text: the empty text, text that is no JSON, the JSON text null, the
\* JSON text of a number, or the JSON text of an object.
NoEntry == [kind |-> "none", value |-> <<>>]
EmptyEntry == [kind |-> "empty", value |-> <<>>]
BadJsonEntry == [kind |-> "badjson", value |-> <<>>]
NullEntry == [kind |-> "null", value |-> <<>>]
NumberEntry == [kind |-> "number", value |-> <<>>]
ObjectEntry(object) == [kind |-> "object", value |-> object]

\* JSON.stringify(newConfig): the fields of the record, with their values
JsonStringify(config) ==
  ObjectEntry([f \in ConfigFields |-> config[f]])

\* A value some other writer of the entry gave to a field.
StoredValue(f) ==
  CASE f = "owner" -> "p"
    [] f = "repo" -> "q"
    [] f = "branch" -> "dev"
    [] f = "token" -> "t"

StoredObjects ==
  UNION {[fields -> {"", "x"}] : fields \in SUBSET ConfigFields}

StoredEntries ==
  {NoEntry, EmptyEntry, BadJsonEntry, NullEntry, NumberEntry}
    \cup {ObjectEntry([f \in DOMAIN o |->
                         IF o[f] = "" THEN "" ELSE StoredValue(f)]) :
            o \in StoredObjects}

\* parsed.owner: undefined when the object has no such field
Undefined == "undefined"
Field(object, f) == IF f \in DOMAIN object THEN object[f] ELSE Undefined

\* Variant: only a missing field falls back to the default.
OrDefaultKeepsEmpty(value, default) ==
  IF value = Undefined THEN default ELSE value

\* parsed.owner || PUBLIC_REPO_CONFIG.owner
OrDefault(value, default) ==
  IF value \in {Undefined, ""} THEN default ELSE value

\* setRepoConfig(prev => ({ ...prev, owner: ..., repo: ..., branch: ...,
\* token: parsed.token || '' }))
MergeConfig(prev, parsed) ==
  [prev EXCEPT
     !.owner = OrDefault(Field(parsed, "owner"), PUBLIC_REPO_CONFIG.owner),
     !.repo = OrDefault(Field(parsed, "repo"), PUBLIC_REPO_CONFIG.repo),
     !.branch = OrDefault(Field(parsed, "branch"), PUBLIC_REPO_CONFIG.branch),
     !.token = OrDefault(Field(parsed, "token"), "")]

NoError == "null"
PanelUnmounted ==
  [mounted |-> FALSE, localConfig |-> PUBLIC_REPO_CONFIG, error |-> NoError,
   configSuccess |-> FALSE, repoWarning |-> FALSE]
SaveIdle == [pc |-> "idle", config |-> PUBLIC_REPO_CONFIG, isValid |-> FALSE]

\* The deps of an effect that has not run yet.
NotLoaded == <<>>

\* The page is loaded: the state of App after its first render.
AppInit ==
  /\ repoConfig = PUBLIC_REPO_CONFIG
  /\ appPc = "boot"
  /\ boots = 1
  /\ panel = PanelUnmounted
  /\ save = SaveIdle
  /\ viewMode = "GALLERY"
  /\ passwordInput = ""
  /\ loginError = NoError
  /\ artworks = JsonArray(<<>>)
  /\ isLoadingData = FALSE
  /\ loads = {}
  /\ loadedFor = NotLoaded

\* No manifest text is in transit.
WireIdle == [pc |-> "idle", updated |-> <<>>, bytes |-> <<>>,
             got |-> [ok |-> FALSE, val |-> <<>>]]

Init ==
  /\ ServiceInit
  /\ AppInit
  /\ stored = NoEntry
  /\ wire = WireIdle

\* The page is loaded with whatever an earlier visit left in local
\* storage; the store holds no manifest.
InitApp ==
  /\ ServiceInit
  /\ manifest = Absent
  /\ AppInit
  /\ stored \in StoredEntries
  /\ wire = WireIdle

\* A caller starts an operation: its locals are fresh.
Begin(p, o) ==
  /\ pc[p] \in {"idle", "done"}
  /\ started < MaxOps
  /\ started' = started + 1
  /\ op' = [op EXCEPT ![p] = o]
  /\ reqs' = [reqs EXCEPT ![p] = <<>>]

\* The operation ends: the promise resolves or rejects with r, and the
\* locals of the call are gone.
Finish(p, r) ==
  /\ pc' = [pc EXCEPT ![p] = "done"]
  /\ res' = [res EXCEPT ![p] = r]
  /\ sha' = [sha EXCEPT ![p] = NoSha]
  /\ cur' = [cur EXCEPT ![p] = JsonArray(<<>>)]
  /\ imagePath' = [imagePath EXCEPT ![p] = <<>>]

\* The operation goes on to its next request with these locals.
Goto(p, label, token, current, path) ==
  /\ pc' = [pc EXCEPT ![p] = label]
  /\ res' = res
  /\ sha' = [sha EXCEPT ![p] = token]
  /\ cur' = [cur EXCEPT ![p] = current]
  /\ imagePath' = [imagePath EXCEPT ![p] = path]

Issue(p, r) == reqs' = [reqs EXCEPT ![p] = Append(reqs[p], r)]

(***************************************************************************)
(* updateGalleryManifest(newArtwork, config)                               *)
(***************************************************************************)
\* Variant: the id is the number of the record in the stored list.
NewIdByCount == Len(manifest.items) + 1

\* id: crypto.randomUUID(), an id no record has had before
NewId == nextId

\* handlePublish builds newArtwork and calls updateGalleryManifest
CallPublish(p) ==
  \E config \in {CfgAdmin, CfgVisitor}, url \in {UrlNew} :
    /\ nextId <= MaxIds
    /\ Begin(p, [kind |-> "publish", config |-> config,
                 artwork |-> Artwork(NewId, url), file |-> ""])
    /\ nextId' = nextId + 1
    /\ IF ~HasToken(config)
         THEN Finish(p, Failed("Authentication required"))
         ELSE Goto(p, "pub_get", NoSha, JsonArray(<<>>), <<>>)
    /\ UNCHANGED <<ui, manifest, mirror, assets, now>>

\* Variant: sha is taken from the answer whatever its status.
PublishReadAnyStatus(out, file) ==
  IF out = "neterr"
    THEN [sha |-> NoSha, cur |-> JsonArray(<<>>)]
  ELSE IF out \in {"error", "notfound", "ok_nocontent"} \/ ~Decodes(file)
    THEN [sha |-> ShaOf(file), cur |-> JsonArray(<<>>)]
  ELSE [sha |-> ShaOf(file), cur |-> ParseFile(file)]

\* 1. Get current file (to get SHA and current list); the outcome of the
\* try block is the pair (sha, currentArtworks).
PublishRead(out, file) ==
  IF out \in {"neterr", "error", "notfound"}
    THEN [sha |-> NoSha, cur |-> JsonArray(<<>>)]
  ELSE IF out = "ok_nocontent" \/ ~Decodes(file)
    THEN [sha |-> ShaOf(file), cur |-> JsonArray(<<>>)]
  ELSE [sha |-> ShaOf(file), cur |-> ParseFile(file)]

PublishGet(p) ==
  /\ pc[p] = "pub_get"
  /\ \E out \in GetOutcomes(manifest) :
       LET r == PublishRead(out, manifest) IN
         /\ Issue(p, Req("GET", "manifest",
                         IF out \in {"ok", "ok_nocontent"}
                           THEN ShaOf(manifest) ELSE NoSha, out))
         \* [newArtwork, ...currentArtworks] throws on a non-iterable
         /\ IF r.cur.kind = "array"
              THEN Goto(p, "pub_put", r.sha, r.cur, <<>>)
              ELSE Finish(p, Failed("TypeError"))
  /\ UNCHANGED <<ui, manifest, mirror, assets, now, nextId, started, op>>

\* 2. Prepend new artwork
PublishContent(newArtwork, currentArtworks) ==
  <<newArtwork>> \o currentArtworks

\* Variant: the write names whatever version is current when it is sent.
PublishShaLatest(p) == IF manifest = Absent THEN NoSha ELSE ShaOf(manifest)

\* sha: sha of the PUT body
PublishSha(p) == sha[p]

\* Variant: the rejection of the PUT is never passed on to the caller.
PutRefusedUnsettled(p) == Goto(p, "pub_put_refused", sha[p], cur[p], <<>>)

\* if (!response.ok) throw new Error("Failed to update gallery manifest")
PutRefused(p) == Finish(p, Failed("Failed to update gallery manifest"))

\* 3. Update file
PublishPut(p) ==
  /\ pc[p] = "pub_put"
  /\ \E out \in WriteOutcomes :
       LET accepted == out = "store" /\ StoreAccepts(manifest, PublishSha(p))
           result == IF accepted THEN "ok"
                     ELSE IF out = "store" THEN "conflict" ELSE out
       IN
         /\ Issue(p, Req("PUT", "manifest", PublishSha(p), result))
         /\ IF accepted
              THEN /\ manifest' = EncodeManifest(
                                    PublishContent(op[p].artwork, cur[p].items))
                   /\ Finish(p, Ok)
              ELSE /\ manifest' = manifest
                   /\ IF out = "neterr"
                        THEN Finish(p, Failed("fetch failed"))
                        ELSE PutRefused(p)
  /\ UNCHANGED <<ui, mirror, assets, now, nextId, started, op>>

(***************************************************************************)
(* deleteArtworkFromGitHub(artwork, config)                                *)
(***************************************************************************)
DeleteInputs ==
  {Artwork(1, url) : url \in {UrlRaw, UrlPlain, UrlRelative, UrlBadEscape}}
    \cup {Artwork(2, UrlCdn)}

CallDelete(p) ==
  \E config \in {CfgAdmin, CfgVisitor}, artwork \in DeleteInputs :
    /\ Begin(p, [kind |-> "delete", config |-> config, artwork |-> artwork,
                 file |-> ""])
    /\ IF ~HasToken(config)
         THEN Finish(p, Failed("Authentication required"))
         ELSE Goto(p, "del_get", NoSha, JsonArray(<<>>), <<>>)
    /\ UNCHANGED <<ui, manifest, mirror, assets, now, nextId>>

\* Get current manifest
DeleteGet(p) ==
  /\ pc[p] = "del_get"
  /\ \E out \in GetOutcomes(manifest) :
       /\ Issue(p, Req("GET", "manifest",
                       IF out \in {"ok", "ok_nocontent"}
                         THEN ShaOf(manifest) ELSE NoSha, out))
       /\ IF out = "neterr"
            THEN Finish(p, Failed("fetch failed"))
          ELSE IF out \in {"error", "notfound"}
            THEN Finish(p, Failed("Could not fetch gallery manifest to perform deletion"))
          ELSE IF out = "ok_nocontent" \/ ~Decodes(manifest)
            \* JSON.parse or b64_to_utf8 throws
            THEN Finish(p, Failed("SyntaxError"))
          ELSE IF ParseFile(manifest).kind # "array"
            \* currentArtworks.filter is not a function
            THEN Finish(p, Failed("TypeError"))
          ELSE Goto(p, "del_put", ShaOf(manifest), ParseFile(manifest), <<>>)
  /\ UNCHANGED <<ui, manifest, mirror, assets, now, nextId, started, op>>

\* Variant: the filter keeps the matching records.
FilterOutInverted(items, id) == SelectSeq(items, LAMBDA a : a.id = id)

\* Filter out the item
RECURSIVE FilterOut(_, _)
FilterOut(items, id) ==
  IF items = <<>> THEN <<>>
  ELSE IF Head(items).id # id
    THEN <<Head(items)>> \o FilterOut(Tail(items), id)
    ELSE FilterOut(Tail(items), id)

\* sha: manifestSha of the PUT body
DeleteSha(p) == sha[p]

\* `https://raw.githubusercontent.com/${config.owner}/${config.repo}/${branch}/`
RawPrefix(config) ==
  <<"https:", "", RAW_HOST, config.owner, config.repo, BranchOf(config)>>

\* artwork.imageUrl.startsWith(rawPrefix): the prefix ends with "/"
StartsWith(url, prefix) ==
  /\ Len(url) > Len(prefix)
  /\ SubSeq(url, 1, Len(prefix)) = prefix

\* artwork.imageUrl.includes('/images/')
IncludesImages(url) == \E i \in 2..(Len(url) - 1) : url[i] = "images"

\* new URL(artwork.imageUrl) throws unless the URL is absolute
IsAbsoluteUrl(url) ==
  /\ Len(url) >= 3
  /\ url[1] \in {"https:", "http:"}
  /\ url[2] = ""
  /\ url[3] # ""

\* urlObj.pathname.split('/')
PathParts(url) == <<"">> \o SubSeq(url, 4, Len(url))

\* pathParts.slice(pathParts.indexOf('images')), empty when there is none
FromImages(parts) ==
  IF \E i \in 1..Len(parts) : parts[i] = "images"
    THEN LET i == CHOOSE k \in 1..Len(parts) :
                    /\ parts[k] = "images"
                    /\ \A j \in 1..(k - 1) : parts[j] # "images"
         IN SubSeq(parts, i, Len(parts))
    ELSE <<>>

\* the joined string is ''
IsEmptyPath(path) == path = <<>> \/ path = <<"">>

\* decodeURIComponent throws a URIError on a malformed escape
MalformedEscape(seg) == seg \in {"50%.jpg"}
DecodeSegment(seg) == IF seg = "my%20art.jpg" THEN "my art.jpg" ELSE seg
DecodePath(path) == [i \in 1..Len(path) |-> DecodeSegment(path[i])]

\* The try block up to the first request: the derived path, or no path
\* when none can be derived or an exception is thrown.
DerivePath(url, config) ==
  LET raw == IF StartsWith(url, RawPrefix(config))
               THEN [thrown |-> FALSE,
                     path |-> SubSeq(url, Len(RawPrefix(config)) + 1, Len(url))]
             ELSE IF IncludesImages(url)
               THEN IF IsAbsoluteUrl(url)
                      THEN [thrown |-> FALSE, path |-> FromImages(PathParts(url))]
                      ELSE [thrown |-> TRUE, path |-> <<>>]
             ELSE [thrown |-> FALSE, path |-> <<>>]
  IN IF raw.thrown \/ IsEmptyPath(raw.path) THEN [thrown |-> raw.thrown, path |-> <<>>]
     ELSE IF \E i \in 1..Len(raw.path) : MalformedEscape(raw.path[i])
       THEN [thrown |-> TRUE, path |-> <<>>]
     ELSE [thrown |-> FALSE, path |-> DecodePath(raw.path)]

\* Variant: the status of the manifest update is not looked at.
ManifestUpdatedUnchecked(result) == TRUE

\* if (!updateManifestResponse.ok) throw new Error(...)
ManifestUpdated(result) == result = "ok"

\* Variant: the catch block rethrows.
CatchCleanupRethrows(p) == Finish(p, Failed("Error attempting to delete image file"))

\* catch (e) { console.warn(...) }: a failure of the cleanup is swallowed
CatchCleanup(p) == Finish(p, Ok)

\* Update manifest, then derive the path of the image file
DeletePut(p) ==
  /\ pc[p] = "del_put"
  /\ \E out \in WriteOutcomes :
       LET accepted == out = "store" /\ StoreAccepts(manifest, DeleteSha(p))
           result == IF accepted THEN "ok"
                     ELSE IF out = "store" THEN "conflict" ELSE out
           derived == DerivePath(op[p].artwork.imageUrl, op[p].config)
       IN
         /\ Issue(p, Req("PUT", "manifest", DeleteSha(p), result))
         /\ manifest' = IF accepted
                          THEN EncodeManifest(
                                 FilterOut(cur[p].items, op[p].artwork.id))
                          ELSE manifest
         /\ IF out = "neterr"
              THEN Finish(p, Failed("fetch failed"))
            ELSE IF ~ManifestUpdated(result)
              THEN Finish(p, Failed("Failed to update gallery list"))
            ELSE IF derived.thrown
              THEN CatchCleanup(p)
            ELSE IF derived.path = <<>>
              THEN Finish(p, Ok)
            ELSE Goto(p, "del_get_img", NoSha, JsonArray(<<>>), derived.path)
  /\ UNCHANGED <<ui, mirror, assets, now, nextId, started, op>>

\* Outcomes of a GET of an image file
AssetGetOutcomes(path) ==
  {"neterr", "error"} \cup (IF path \in assets THEN {"ok"} ELSE {"notfound"})

\* Variant: the status of the answer to the image read is not looked at.
AssetReadOkUnchecked(out) == TRUE

\* if (getImgResponse.ok)
AssetReadOk(out) == out = "ok"

\* Get SHA of image file; imgSha is the sha of the answer
DeleteGetImage(p) ==
  /\ pc[p] = "del_get_img"
  /\ \E out \in AssetGetOutcomes(imagePath[p]) :
       LET imgSha == IF out = "ok" THEN BlobSha(imagePath[p]) ELSE NoSha IN
         /\ Issue(p, Req("GET", "asset", imgSha, out))
         /\ IF out = "neterr"
              THEN CatchCleanup(p)
            ELSE IF AssetReadOk(out)
              THEN Goto(p, "del_delete_img", imgSha, JsonArray(<<>>),
                        imagePath[p])
            \* console.warn("Image file not found (404), likely already deleted.")
            ELSE Finish(p, Ok)
  /\ UNCHANGED <<ui, manifest, mirror, assets, now, nextId, started, op>>

\* A DELETE is accepted when it names the current version of the file.
StoreDeletes(path, token) == path \in assets /\ token = BlobSha(path)

\* Delete image file; the response is not looked at
DeleteImageFile(p) ==
  /\ pc[p] = "del_delete_img"
  /\ \E out \in WriteOutcomes :
       LET accepted == out = "store" /\ StoreDeletes(imagePath[p], sha[p])
           result == IF accepted THEN "ok"
                     ELSE IF out = "store" THEN "conflict" ELSE out
       IN
         /\ Issue(p, Req("DELETE", "asset", sha[p], result))
         /\ assets' = IF accepted THEN assets \ {imagePath[p]} ELSE assets
         /\ IF out = "neterr" THEN CatchCleanup(p) ELSE Finish(p, Ok)
  /\ UNCHANGED <<ui, manifest, mirror, now, nextId, started, op>>

(***************************************************************************)
(* fetchGalleryFromGitHub(config)                                          *)
(***************************************************************************)
Returned(value) == [st |-> "ok", val |-> value, url |-> <<>>]

\* The repository that a configuration names: the one whose files the
\* model follows, or another one, whose gallery.json does not change.
OtherManifest == ArrayFile(<<Artwork(3, UrlPlain)>>)
IsModelledRepo(config) == config.owner = "o" /\ config.repo = "r"
FileOf(config) == IF IsModelledRepo(config) THEN manifest ELSE OtherManifest
MirrorOf(config) == IF IsModelledRepo(config) THEN mirror ELSE OtherManifest

\* fetchGalleryFromGitHub(config) up to its first request
FetchWith(p, config) ==
  /\ Begin(p, [kind |-> "fetch", config |-> config,
               artwork |-> Artwork(0, <<>>), file |-> ""])
  /\ IF config.owner = "" \/ config.repo = ""
       THEN Finish(p, Returned(JsonArray(<<>>)))
       ELSE IF HasToken(config)
         THEN Goto(p, "fetch_api", NoSha, JsonArray(<<>>), <<>>)
         ELSE Goto(p, "fetch_raw", NoSha, JsonArray(<<>>), <<>>)
  /\ UNCHANGED <<manifest, mirror, assets, now, nextId>>

CallFetch(p) ==
  \E config \in Configs :
    /\ FetchWith(p, config)
    /\ UNCHANGED ui

\* Variant: not-found is not told apart from the other error statuses.
FetchApiResultNoNotFound(out, file) ==
  IF out = "ok" /\ Decodes(file)
    THEN [returns |-> TRUE, val |-> ParseFile(file)]
    ELSE [returns |-> FALSE, val |-> JsonArray(<<>>)]

\* What the authenticated read returns to the caller, if it returns: the
\* parsed content of a 200 answer, an empty array on 404.
FetchApiResult(out, file) ==
  IF out = "ok" /\ Decodes(file)
    THEN [returns |-> TRUE, val |-> ParseFile(file)]
  ELSE IF out = "notfound"
    THEN [returns |-> TRUE, val |-> JsonArray(<<>>)]
  ELSE [returns |-> FALSE, val |-> JsonArray(<<>>)]

\* OPTION 1: authenticated API fetch
FetchApi(p) ==
  /\ pc[p] = "fetch_api"
  /\ \E out \in GetOutcomes(FileOf(op[p].config)) :
       LET file == FileOf(op[p].config) IN
         /\ Issue(p, Req("GET", "manifest",
                         IF out \in {"ok", "ok_nocontent"}
                           THEN ShaOf(file) ELSE NoSha, out))
         /\ IF FetchApiResult(out, file).returns
              THEN Finish(p, Returned(FetchApiResult(out, file).val))
              ELSE Goto(p, "fetch_raw", NoSha, JsonArray(<<>>), <<>>)
  /\ UNCHANGED <<ui, manifest, mirror, assets, now, nextId, started, op>>

\* Outcomes of a GET of the raw URL
MirrorOutcomes(file) ==
  {"neterr", "error"} \cup (IF file = Absent THEN {"notfound"} ELSE {"ok"})

\* Variant: the parsed data is returned as it is.
ArrayOrEmptyUnchecked(data) == data

\* Array.isArray(data) ? data : []
ArrayOrEmpty(data) == IF data.kind = "array" THEN data ELSE JsonArray(<<>>)

\* OPTION 2: Raw URL fetch
FetchRaw(p) ==
  /\ pc[p] = "fetch_raw"
  /\ \E out \in MirrorOutcomes(MirrorOf(op[p].config)) :
       LET file == MirrorOf(op[p].config) IN
         /\ Issue(p, Req("GET", "mirror", NoSha, out))
         /\ IF out = "ok" /\ Decodes(file)
              THEN Finish(p, Returned(ArrayOrEmpty(ParseFile(file))))
              ELSE Finish(p, Returned(JsonArray(<<>>)))
  /\ UNCHANGED <<ui, manifest, mirror, assets, now, nextId, started, op>>

\* The raw-content mirror catches up with the store.
MirrorRefresh ==
  /\ mirror # manifest
  /\ mirror' = manifest
  /\ UNCHANGED <<ui, manifest, assets, now, nextId, started, pc, op, sha, cur,
                 imagePath, res, reqs>>

(***************************************************************************)
(* uploadImageToGitHub(file, base64Content, config)                        *)
(***************************************************************************)
FileNames == {"a.jpg", "My Art.JPG"}

\* file.name.replace(/[^a-zA-Z0-9.-]/g, '').toLowerCase()
CleanName(name) == IF name = "My Art.JPG" THEN "myart.jpg" ELSE name

\* `images/${Date.now()}-${cleanName}`
UploadPath(time, name) == <<"images", ToString(time) \o "-" \o CleanName(name)>>

CallUpload(p) ==
  \E config \in {CfgAdmin, CfgVisitor}, file \in FileNames :
    /\ Begin(p, [kind |-> "upload", config |-> config,
                 artwork |-> Artwork(0, <<>>), file |-> file])
    /\ IF ~HasToken(config)
         THEN Finish(p, Failed("Authentication required"))
         ELSE Goto(p, "upl_put", NoSha, JsonArray(<<>>), UploadPath(now, file))
    /\ UNCHANGED <<ui, manifest, mirror, assets, now, nextId>>

\* A PUT of an image file is accepted when it names the current version
\* of the file, or names none and the file does not exist.
StoreWrites(path, token) ==
  IF path \in assets THEN token = BlobSha(path) ELSE token = NoSha

\* Variant: the upload names the version of a file that is in its way.
UploadShaCurrent(p) ==
  IF imagePath[p] \in assets THEN BlobSha(imagePath[p]) ELSE NoSha

\* body: { message, content, branch }: the PUT names no version
UploadSha(p) == NoSha

UploadPut(p) ==
  /\ pc[p] = "upl_put"
  /\ \E out \in WriteOutcomes :
       LET path == imagePath[p]
           accepted == out = "store" /\ StoreWrites(path, UploadSha(p))
           result == IF accepted THEN "ok"
                     ELSE IF out = "store" THEN "conflict" ELSE out
       IN
         /\ Issue(p, Req("PUT", "asset", UploadSha(p), result))
         /\ IF accepted
              THEN /\ assets' = assets \cup {path}
                   /\ Finish(p, [st |-> "ok", val |-> JsonArray(<<>>),
                                 url |-> RawPrefix(op[p].config) \o path])
              ELSE /\ assets' = assets
                   /\ IF out = "neterr"
                        THEN Finish(p, Failed("fetch failed"))
                        ELSE Finish(p, Failed("Failed to upload image"))
  /\ UNCHANGED <<ui, manifest, mirror, now, nextId, started, op>>

\* Time passes.
Tick ==
  /\ now < MaxClock
  /\ now' = now + 1
  /\ UNCHANGED <<ui, manifest, mirror, assets, nextId, started, pc, op, sha, cur,
                 imagePath, res, reqs>>

\* The operations that write to the store, overlapping freely.
Next ==
  \/ \E p \in Procs : CallUpload(p)
  \/ \E p \in Procs : UploadPut(p)
  \/ \E p \in Procs : CallPublish(p)
  \/ \E p \in Procs : PublishGet(p)
  \/ \E p \in Procs : PublishPut(p)
  \/ \E p \in Procs : CallDelete(p)
  \/ \E p \in Procs : DeleteGet(p)
  \/ \E p \in Procs : DeletePut(p)
  \/ \E p \in Procs : DeleteGetImage(p)
  \/ \E p \in Procs : DeleteImageFile(p)

Spec == Init /\ [][Next]_vars

\* Readers of the gallery, while artworks are being published.
NextFetch ==
  \/ MirrorRefresh
  \/ \E p \in Procs : CallFetch(p)
  \/ \E p \in Procs : FetchApi(p)
  \/ \E p \in Procs : FetchRaw(p)
  \/ \E p \in Procs : CallPublish(p)
  \/ \E p \in Procs : PublishGet(p)
  \/ \E p \in Procs : PublishPut(p)

SpecFetch == Init /\ [][NextFetch]_vars

\* Uploads as time passes.
NextUpload ==
  \/ Tick
  \/ \E p \in Procs : CallUpload(p)
  \/ \E p \in Procs : UploadPut(p)

SpecUpload == Init /\ [][NextUpload]_vars

(***************************************************************************)
(* AdminPanel.handlePublish: the upload of the image, then the update of   *)
(* the manifest with the URL the upload returned.                          *)
(***************************************************************************)
\* Variant: handlePublish goes on whatever became of the upload.
UploadResolvedUnchecked(p) == TRUE

\* await uploadImageToGitHub(...) resolved; a rejection goes to the catch
UploadResolved(p) == res[p].st = "ok"

\* await uploadImageToGitHub(...) has returned imageUrl.
Uploaded(p) ==
  pc[p] = "done" /\ op[p].kind = "upload" /\ UploadResolved(p)

\* handlePublish goes on after the upload: it builds newArtwork and calls
\* updateGalleryManifest.
HandlePublishUploaded(p) ==
  /\ Uploaded(p)
  /\ op' = [op EXCEPT ![p] = [kind |-> "publish", config |-> op[p].config,
                              artwork |-> Artwork(NewId, res[p].url),
                              file |-> op[p].file]]
  /\ nextId' = nextId + 1
  /\ reqs' = [reqs EXCEPT ![p] = <<>>]
  /\ IF ~HasToken(op[p].config)
       THEN Finish(p, Failed("Authentication required"))
       ELSE Goto(p, "pub_get", NoSha, JsonArray(<<>>), <<>>)
  /\ UNCHANGED <<ui, manifest, mirror, assets, now, started>>

\* The steps of caller p that wait for nothing but the answer to a
\* request, or for the continuation of handlePublish to be scheduled.
Answer(p) ==
  \/ UploadPut(p)
  \/ HandlePublishUploaded(p)
  \/ PublishGet(p)
  \/ PublishPut(p)
  \/ DeleteGet(p)
  \/ DeletePut(p)
  \/ DeleteGetImage(p)
  \/ DeleteImageFile(p)

\* Publish and delete sequences as the panel and its callers run them: a
\* caller starts nothing new while its handlePublish is still running.
NextLive ==
  \/ \E p \in Procs : ~Uploaded(p) /\ CallUpload(p)
  \/ \E p \in Procs : UploadPut(p)
  \/ \E p \in Procs : HandlePublishUploaded(p)
  \/ \E p \in Procs : PublishGet(p)
  \/ \E p \in Procs : PublishPut(p)
  \/ \E p \in Procs : ~Uploaded(p) /\ CallDelete(p)
  \/ \E p \in Procs : DeleteGet(p)
  \/ \E p \in Procs : DeletePut(p)
  \/ \E p \in Procs : DeleteGetImage(p)
  \/ \E p \in Procs : DeleteImageFile(p)

\* Every request is answered, with a response or with an error, and a
\* resolved await is continued.
SpecLive ==
  Init /\ [][NextLive]_vars /\ \A p \in Procs : WF_vars(Answer(p))

(***************************************************************************)
(* App and AdminPanel: loading and saving the configuration.               *)
(***************************************************************************)
MaxBoots == 2

\* The configuration after the effect that loads it from local storage
StartupConfig ==
  \* if (savedConfig)
  IF stored.kind \in {"none", "empty"}
    THEN repoConfig
  \* JSON.parse throws, or parsed.owner throws on null
  ELSE IF stored.kind \in {"badjson", "null"}
    THEN repoConfig
  ELSE MergeConfig(repoConfig, stored.value)

\* useEffect(() => { ... }, []): load config from local storage
Startup ==
  /\ appPc = "boot"
  /\ appPc' = "ready"
  /\ repoConfig' = StartupConfig
  /\ UNCHANGED <<svc, wire, gallery, stored, boots, panel, save>>

\* AdminPanel is rendered: useState<RepoConfig>(repoConfig)
MountAdminPanel ==
  /\ appPc = "ready"
  /\ ~panel.mounted
  /\ panel' = [PanelUnmounted EXCEPT !.mounted = TRUE,
                                     !.localConfig = repoConfig]
  /\ UNCHANGED <<svc, wire, gallery, repoConfig, stored, appPc, boots, save>>

\* What the artist types into the fields of the settings form.
FormValues(f) ==
  CASE f = "owner" -> {"o", ""}
    [] f = "repo" -> {"r"}
    [] f = "branch" -> {"", "dev"}
    [] f = "token" -> {"t", ""}

\* onChange: setLocalConfig({...localConfig, owner: e.target.value})
EditSettings ==
  /\ panel.mounted
  /\ \E f \in ConfigFields :
     \E v \in FormValues(f) :
       /\ panel.localConfig[f] # v
       /\ panel' = [panel EXCEPT !.localConfig[f] = v]
  /\ UNCHANGED <<svc, wire, gallery, repoConfig, stored, appPc, boots, save>>

\* verifyRepoAccess(config): false without a token, else response.ok,
\* and false when the request throws
VerifyOutcomes(config) ==
  IF HasToken(config) THEN {"ok", "denied", "neterr"} ELSE {"notoken"}
verifyRepoAccess(config, out) == HasToken(config) /\ out = "ok"

\* Variant: the result of the verification is not looked at.
IfIsValidUnchecked(isValid) == TRUE

\* if (isValid)
IfIsValid(isValid) == isValid

AccessError == "Could not access repository"

\* saveSettings up to await verifyRepoAccess(localConfig); the button is
\* disabled while isVerifying.
SaveSettings ==
  /\ panel.mounted
  /\ save.pc = "idle"
  /\ save' = [pc |-> "verify", config |-> panel.localConfig,
              isValid |-> FALSE]
  /\ panel' = [panel EXCEPT !.error = NoError,
                            !.repoWarning = FALSE,
                            !.configSuccess = FALSE]
  /\ UNCHANGED <<svc, wire, gallery, repoConfig, stored, appPc, boots>>

\* The answer to verifyRepoAccess(localConfig)
VerifyAnswer ==
  /\ save.pc = "verify"
  /\ \E out \in VerifyOutcomes(save.config) :
       LET isValid == verifyRepoAccess(save.config, out) IN
         IF IfIsValid(isValid)
           THEN /\ save' = [save EXCEPT !.pc = "details", !.isValid = isValid]
                /\ panel' = panel
           ELSE /\ save' = [save EXCEPT !.pc = "idle", !.isValid = isValid]
                /\ panel' = [panel EXCEPT !.error = AccessError]
  /\ UNCHANGED <<svc, wire, gallery, repoConfig, stored, appPc, boots>>

\* handleConfigUpdate(newConfig): setRepoConfig, localStorage.setItem
handleConfigUpdate(newConfig) ==
  /\ repoConfig' = newConfig
  /\ stored' = JsonStringify(newConfig)

\* getRepoDetails(localConfig): the repository is public or private, or
\* null when the request fails
DetailsOutcomes == {"public", "private", "null"}

\* The answer to getRepoDetails(localConfig), then onConfigChange
DetailsAnswer ==
  /\ save.pc = "details"
  /\ \E out \in DetailsOutcomes :
       /\ handleConfigUpdate(save.config)
       /\ panel' = [panel EXCEPT !.repoWarning = (out = "private"),
                                 !.configSuccess = TRUE]
       /\ save' = [save EXCEPT !.pc = "idle"]
  /\ UNCHANGED <<svc, wire, gallery, appPc, boots>>

\* The page is loaded again: the state of the components starts afresh,
\* local storage stays.
Reload ==
  /\ boots < MaxBoots
  /\ boots' = boots + 1
  /\ repoConfig' = PUBLIC_REPO_CONFIG
  /\ appPc' = "boot"
  /\ panel' = PanelUnmounted
  /\ save' = SaveIdle
  /\ UNCHANGED <<svc, wire, gallery, stored>>

NextApp ==
  \/ Startup
  \/ MountAdminPanel
  \/ EditSettings
  \/ SaveSettings
  \/ VerifyAnswer
  \/ DetailsAnswer
  \/ Reload

SpecApp == InitApp /\ [][NextApp]_vars

(***************************************************************************)
(* App: the views, the login, and the loading of the displayed list.       *)
(***************************************************************************)
ARTIST_PASSWORD == "muse"

\* What is typed into the password field.
PasswordInputs == {"", "muse", "x"}

settings == <<repoConfig, stored, appPc, boots, panel, save>>
loading == <<artworks, isLoadingData, loads, loadedFor>>

\* [repoConfig.owner, repoConfig.repo]: the deps of the load effect
Deps(config) == <<config.owner, config.repo>>

\* The effects of the last render have run: the page takes input.
EffectsRun == appPc = "ready" /\ loadedFor = Deps(repoConfig)

\* Header: the logo and the Gallery button
HeaderGallery ==
  /\ EffectsRun
  /\ viewMode' = "GALLERY"
  /\ UNCHANGED <<svc, wire, settings, loading, passwordInput, loginError>>

\* Header: the Artist Login / Admin Panel button
HeaderToggle ==
  /\ EffectsRun
  /\ viewMode' = IF viewMode = "ADMIN" THEN "GALLERY" ELSE "LOGIN"
  /\ UNCHANGED <<svc, wire, settings, loading, passwordInput, loginError>>

\* onChange of the password field: setPasswordInput(e.target.value)
TypePassword ==
  /\ EffectsRun
  /\ viewMode = "LOGIN"
  /\ \E input \in PasswordInputs \ {passwordInput} : passwordInput' = input
  /\ UNCHANGED <<svc, wire, settings, loading, viewMode, loginError>>

\* Variant: any input that is not empty is taken.
PasswordMatchesAny(input) == input # ""

\* passwordInput === ARTIST_PASSWORD
PasswordMatches(input) == input = ARTIST_PASSWORD

IncorrectPassword == "Incorrect password"

\* onSubmit of the login form
handleLogin ==
  /\ EffectsRun
  /\ viewMode = "LOGIN"
  /\ IF PasswordMatches(passwordInput)
       THEN /\ viewMode' = "ADMIN"
            /\ passwordInput' = ""
            /\ loginError' = NoError
       ELSE /\ loginError' = IncorrectPassword
            /\ UNCHANGED <<viewMode, passwordInput>>
  /\ UNCHANGED <<svc, wire, settings, loading>>

\* onLogout of AdminPanel
Logout ==
  /\ EffectsRun
  /\ viewMode = "ADMIN"
  /\ viewMode' = "GALLERY"
  /\ UNCHANGED <<svc, wire, settings, loading, passwordInput, loginError>>

\* loadGalleryData up to await fetchGalleryFromGitHub(repoConfig), with
\* the repoConfig of the render it was created in
loadGalleryData(p, config) ==
  IF config.owner # "" /\ config.repo # ""
    THEN /\ p \notin loads
         /\ isLoadingData' = TRUE
         /\ FetchWith(p, config)
         /\ loads' = loads \cup {p}
    ELSE UNCHANGED <<svc, isLoadingData, loads>>

\* The effects after the first render: the configuration is loaded from
\* local storage, and loadGalleryData runs with the configuration of the
\* first render.
MountApp(p) ==
  /\ appPc = "boot"
  /\ appPc' = "ready"
  /\ repoConfig' = StartupConfig
  /\ loadGalleryData(p, repoConfig)
  /\ loadedFor' = Deps(repoConfig)
  /\ UNCHANGED <<wire, stored, boots, panel, save, viewMode, passwordInput,
                 loginError, artworks>>

\* useEffect(() => { loadGalleryData(); }, [repoConfig.owner,
\* repoConfig.repo]) after a render in which owner or repo changed
ConfigEffect(p) ==
  /\ appPc = "ready"
  /\ loadedFor # Deps(repoConfig)
  /\ loadedFor' = Deps(repoConfig)
  /\ loadGalleryData(p, repoConfig)
  /\ UNCHANGED <<wire, settings, viewMode, passwordInput, loginError,
                 artworks>>

\* onRefreshData of AdminPanel, called by handlePublish after a publish
Refresh(p) ==
  /\ EffectsRun
  /\ viewMode = "ADMIN"
  /\ loadGalleryData(p, repoConfig)
  /\ UNCHANGED <<wire, settings, viewMode, passwordInput, loginError,
                 artworks, loadedFor>>

\* data.length throws a TypeError when data is null
LengthThrows(data) == data.kind = "null"

\* Variant: every result replaces the displayed list.
IfNonEmptyUnchecked(data) == TRUE

\* if (data.length > 0): false when data has no length
IfNonEmpty(data) == data.kind = "array" /\ Len(data.items) > 0

\* loadGalleryData after await fetchGalleryFromGitHub(repoConfig)
LoadDone(p) ==
  /\ p \in loads
  /\ pc[p] = "done"
  /\ loads' = loads \ {p}
  /\ LET data == res[p].val IN
       IF LengthThrows(data)
         THEN UNCHANGED <<artworks, isLoadingData>>
         ELSE /\ artworks' = IF IfNonEmpty(data) THEN data ELSE artworks
              /\ isLoadingData' = FALSE
  /\ UNCHANGED <<svc, wire, settings, viewMode, passwordInput, loginError,
                 loadedFor>>

\* gallery.json of the repository, and the entry an earlier visit left in
\* local storage: none, a token, another repository, or both.
GalleryManifests ==
  {Absent, NullFile, ObjectFile, ArrayFile(<<>>),
   ArrayFile(<<Artwork(1, UrlRaw)>>),
   ArrayFile(<<Artwork(2, UrlCdn), Artwork(1, UrlRaw)>>)}

GalleryEntries ==
  {NoEntry,
   ObjectEntry([f \in {"token"} |-> StoredValue(f)]),
   ObjectEntry([f \in {"owner", "repo"} |-> StoredValue(f)]),
   ObjectEntry([f \in {"owner", "repo", "token"} |-> StoredValue(f)])}

InitGallery ==
  /\ ServiceInitWith(GalleryManifests)
  /\ AppInit
  /\ stored \in GalleryEntries
  /\ wire = WireIdle

NextGallery ==
  \/ HeaderGallery
  \/ HeaderToggle
  \/ TypePassword
  \/ handleLogin
  \/ Logout
  \/ \E p \in Procs : MountApp(p)
  \/ \E p \in Procs : ConfigEffect(p)
  \/ \E p \in Procs : Refresh(p)
  \/ \E p \in Procs : FetchApi(p)
  \/ \E p \in Procs : FetchRaw(p)
  \/ \E p \in Procs : LoadDone(p)

SpecGallery == InitGallery /\ [][NextGallery]_vars

\* The steps of a load that wait for nothing but the answer to a request
\* or for the continuation of loadGalleryData to be scheduled.
LoadAnswer(p) ==
  \/ FetchApi(p)
  \/ FetchRaw(p)
  \/ LoadDone(p)

\* Every request of a load is answered, and a resolved await is continued.
SpecGalleryLive ==
  InitGallery /\ [][NextGallery]_vars /\ \A p \in Procs : WF_vars(LoadAnswer(p))

(***************************************************************************)
(* The text of the manifest on its way to the store and back.  A text is   *)
(* the sequence of its code points; a binary string is a sequence of       *)
(* character codes that btoa accepts up to 255; a base64 text is a         *)
(* sequence of digits 0..63, with 64 for "=" and 65 for a line feed.       *)
(* A function that can throw returns Value(v) or Thrown.                   *)
(***************************************************************************)
Value(v) == [ok |-> TRUE, val |-> v]
Thrown == [ok |-> FALSE, val |-> <<>>]

\* The concatenation of a sequence of sequences.
RECURSIVE Flatten(_)
Flatten(seqs) ==
  IF seqs = <<>> THEN <<>>
  ELSE IF Len(seqs) = 1 THEN seqs[1]
  ELSE LET half == Len(seqs) \div 2 IN
    Flatten(SubSeq(seqs, 1, half)) \o Flatten(SubSeq(seqs, half + 1, Len(seqs)))

\* The UTF-8 bytes of a code point.
Utf8(cp) ==
  IF cp < 128 THEN <<cp>>
  ELSE IF cp < 2048
    THEN <<192 + (cp \div 64), 128 + (cp % 64)>>
  ELSE IF cp < 65536
    THEN <<224 + (cp \div 4096), 128 + ((cp \div 64) % 64), 128 + (cp % 64)>>
  ELSE <<240 + (cp \div 262144), 128 + ((cp \div 4096) % 64),
         128 + ((cp \div 64) % 64), 128 + (cp % 64)>>

\* A character of a URI-encoded text: itself, or an escape %XX.
Plain(c) == [esc |-> FALSE, code |-> c]
Escaped(b) == [esc |-> TRUE, code |-> b]

IsAlnum(c) == c \in (48..57) \cup (65..90) \cup (97..122)

\* Variant: characters up to 255 are left as they are.
UriEncodeCharLatin1(cp) ==
  IF cp < 256 THEN <<Plain(cp)>>
  ELSE [i \in 1..Len(Utf8(cp)) |-> Escaped(Utf8(cp)[i])]

\* encodeURIComponent leaves A-Z a-z 0-9 - _ . ! ~ * ' ( ) and escapes the
\* UTF-8 bytes of every other character
UriEncodeChar(cp) ==
  IF IsAlnum(cp) \/ cp \in {45, 95, 46, 33, 126, 42, 39, 40, 41}
    THEN <<Plain(cp)>>
    ELSE [i \in 1..Len(Utf8(cp)) |-> Escaped(Utf8(cp)[i])]

encodeURIComponent(str) ==
  Flatten([i \in 1..Len(str) |-> UriEncodeChar(str[i])])

\* unescape turns every %XX into the character of code XX
unescape(uri) == [i \in 1..Len(uri) |-> uri[i].code]

\* The base64 digits of up to three bytes.
Base64Group(bytes) ==
  LET b(i) == IF i <= Len(bytes) THEN bytes[i] ELSE 0
      n == b(1) * 65536 + b(2) * 256 + b(3)
  IN <<n \div 262144,
       (n \div 4096) % 64,
       IF Len(bytes) >= 2 THEN (n \div 64) % 64 ELSE 64,
       IF Len(bytes) >= 3 THEN n % 64 ELSE 64>>

Base64(bytes) ==
  LET n == Len(bytes) IN
    Flatten([g \in 1..((n + 2) \div 3) |->
               Base64Group(SubSeq(bytes, 3 * g - 2,
                                  IF 3 * g <= n THEN 3 * g ELSE n))])

\* window.btoa throws on a character above 255
btoa(binary) ==
  IF \E i \in 1..Len(binary) : binary[i] > 255
    THEN Thrown
    ELSE Value(Base64(binary))

\* btoa(unescape(encodeURIComponent(str)))
utf8_to_b64(str) == btoa(unescape(encodeURIComponent(str)))

\* The bytes of four base64 digits.
Base64Bytes(digits) ==
  LET d(i) == IF digits[i] = 64 THEN 0 ELSE digits[i]
      n == d(1) * 262144 + d(2) * 4096 + d(3) * 64 + d(4)
      all == <<n \div 65536, (n \div 256) % 256, n % 256>>
  IN IF digits[3] = 64 THEN SubSeq(all, 1, 1)
     ELSE IF digits[4] = 64 THEN SubSeq(all, 1, 2)
     ELSE all

Unbase64(digits) ==
  Flatten([g \in 1..(Len(digits) \div 4) |->
             Base64Bytes(SubSeq(digits, 4 * g - 3, 4 * g))])

\* window.atob throws unless the text is made of whole groups of digits
atob(str) ==
  IF \/ Len(str) % 4 # 0
     \/ \E i \in 1..Len(str) : str[i] \notin 0..64
     \/ \E i \in 1..Len(str) :
          str[i] = 64 /\ (i < Len(str) - 1 \/ (i = Len(str) - 1 /\ str[Len(str)] # 64))
    THEN Thrown
    ELSE Value(Unbase64(str))

\* escape leaves A-Z a-z 0-9 @ * _ + - . / and turns every other
\* character of a binary string into %XX
escape(binary) ==
  [i \in 1..Len(binary) |->
     IF IsAlnum(binary[i]) \/ binary[i] \in {64, 42, 95, 43, 45, 46, 47}
       THEN Plain(binary[i])
       ELSE Escaped(binary[i])]

\* The number of bytes of the UTF-8 sequence a byte starts; 0 when it
\* starts none.
Utf8Length(b) ==
  IF b < 128 THEN 1
  ELSE IF b \in 194..223 THEN 2
  ELSE IF b \in 224..239 THEN 3
  ELSE IF b \in 240..244 THEN 4
  ELSE 0

\* The code point of a UTF-8 sequence.
Utf8CodePoint(bytes) ==
  IF Len(bytes) = 1 THEN bytes[1]
  ELSE IF Len(bytes) = 2 THEN (bytes[1] - 192) * 64 + (bytes[2] - 128)
  ELSE IF Len(bytes) = 3
    THEN (bytes[1] - 224) * 4096 + (bytes[2] - 128) * 64 + (bytes[3] - 128)
  ELSE (bytes[1] - 240) * 262144 + (bytes[2] - 128) * 4096
         + (bytes[3] - 128) * 64 + (bytes[4] - 128)

\* An escaped byte that continues a UTF-8 sequence.
IsContinuation(uri, i) ==
  i \in 1..Len(uri) /\ uri[i].esc /\ uri[i].code \in 128..191

\* The number of characters of uri that the character at position i
\* stands for together with those after it; 0 when it starts nothing.
SpanAt(uri, i) == IF uri[i].esc THEN Utf8Length(uri[i].code) ELSE 1

\* decodeURIComponent reads the escapes as UTF-8 and throws a URIError on
\* bytes that are none
decodeURIComponent(uri) ==
  LET starts == {i \in 1..Len(uri) : ~IsContinuation(uri, i)}
      wellFormed ==
        /\ uri # <<>> => 1 \in starts
        /\ \A i \in starts :
             /\ SpanAt(uri, i) # 0
             /\ \A k \in 1..(SpanAt(uri, i) - 1) : IsContinuation(uri, i + k)
             /\ ~IsContinuation(uri, i + SpanAt(uri, i))
      points == [i \in 1..Len(uri) |->
                   IF i \in starts
                     THEN Utf8CodePoint([k \in 1..SpanAt(uri, i) |->
                                           uri[i + k - 1].code])
                     ELSE -1]
  IN IF wellFormed
       THEN Value(SelectSeq(points, LAMBDA c : c # -1))
       ELSE Thrown

\* decodeURIComponent(escape(window.atob(str)))
b64_to_utf8(str) ==
  IF atob(str).ok THEN decodeURIComponent(escape(atob(str).val)) ELSE Thrown

\* JSON.stringify writes ", \ and a line feed of a text as \", \\ and \n
JsonEscape(text) ==
  Flatten([i \in 1..Len(text) |->
             IF text[i] = 34 THEN <<92, 34>>
             ELSE IF text[i] = 92 THEN <<92, 92>>
             ELSE IF text[i] = 10 THEN <<92, 110>>
             ELSE <<text[i]>>])

\* The record of an artwork with its title, and its JSON text
\* {"id":N,"title":"..."}
TitledArtwork(id, title) == [id |-> id, title |-> title]
KeyId == <<123, 34, 105, 100, 34, 58>>
KeyTitle == <<44, 34, 116, 105, 116, 108, 101, 34, 58, 34>>
StringifyArtwork(a) ==
  KeyId \o <<48 + a.id>> \o KeyTitle \o JsonEscape(a.title) \o <<34, 125>>

\* JSON.stringify(updatedArtworks, null, 2), without the indentation
RECURSIVE StringifyItems(_)
StringifyItems(items) ==
  IF items = <<>> THEN <<>>
  ELSE IF Len(items) = 1 THEN StringifyArtwork(items[1])
  ELSE StringifyArtwork(items[1]) \o <<44>> \o StringifyItems(Tail(items))

StringifyArtworks(items) == <<91>> \o StringifyItems(items) \o <<93>>

\* The text at positions i .. i + Len(part) - 1 is part.
HasAt(text, i, part) ==
  /\ i + Len(part) - 1 <= Len(text)
  /\ SubSeq(text, i, i + Len(part) - 1) = part

\* Reads a JSON string from position i, after its opening quote, up to
\* the closing quote.
RECURSIVE ReadString(_, _, _)
ReadString(text, i, acc) ==
  IF i > Len(text) THEN [ok |-> FALSE, val |-> <<>>, next |-> i]
  ELSE IF text[i] = 34 THEN [ok |-> TRUE, val |-> acc, next |-> i + 1]
  ELSE IF text[i] # 92 THEN ReadString(text, i + 1, Append(acc, text[i]))
  ELSE IF i + 1 > Len(text) \/ text[i + 1] \notin {34, 92, 110}
    THEN [ok |-> FALSE, val |-> <<>>, next |-> i]
  ELSE ReadString(text, i + 2,
         Append(acc, IF text[i + 1] = 110 THEN 10 ELSE text[i + 1]))

\* Reads the records of a JSON array from position i.
RECURSIVE ParseItems(_, _, _)
ParseItems(text, i, acc) ==
  IF ~(/\ HasAt(text, i, KeyId)
       /\ i + 6 <= Len(text)
       /\ text[i + 6] \in 48..57
       /\ HasAt(text, i + 7, KeyTitle))
    THEN Thrown
  ELSE LET title == ReadString(text, i + 17, <<>>)
           item == TitledArtwork(text[i + 6] - 48, title.val)
       IN IF ~title.ok \/ title.next + 1 > Len(text) \/ text[title.next] # 125
            THEN Thrown
          ELSE IF text[title.next + 1] = 44
            THEN ParseItems(text, title.next + 2, Append(acc, item))
          ELSE IF text[title.next + 1] = 93 /\ title.next + 1 = Len(text)
            THEN Value(Append(acc, item))
          ELSE Thrown

\* JSON.parse(jsonString) throws a SyntaxError on a text that is no JSON
ParseArtworks(text) ==
  IF text = <<91, 93>> THEN Value(<<>>)
  ELSE IF Len(text) >= 2 /\ text[1] = 91 THEN ParseItems(text, 2, <<>>)
  ELSE Thrown

\* The store keeps the bytes that the content of a PUT stands for, and
\* serves them in base64 with a line feed after every 60 digits.
StoreKeeps(content) == atob(content).val

RECURSIVE WrapLines(_)
WrapLines(digits) ==
  IF Len(digits) <= 60 THEN digits \o <<65>>
  ELSE SubSeq(digits, 1, 60) \o <<65>> \o WrapLines(SubSeq(digits, 61, Len(digits)))

StoreServes(bytes) == WrapLines(Base64(bytes))

\* data.content.replace(/\n/g, '')
CleanContent(content) == SelectSeq(content, LAMBDA c : c # 65)

\* Titles of artworks: "Café au Lait", the empty title, "A", the euro
\* sign, an emoji outside the basic plane, the characters JSON escapes,
\* "%é", and the characters 255 and 256.
CafeAuLait == <<67, 97, 102, 233, 32, 97, 117, 32, 76, 97, 105, 116>>
Titles ==
  {CafeAuLait, <<>>, <<65>>, <<8364>>, <<128512>>, <<34, 92, 10>>,
   <<37, 233>>, <<255, 256>>}

MaxRecords == 2

\* updatedArtworks of a publish: the new record, then the records read.
WireManifests ==
  UNION {{[i \in 1..n |-> TitledArtwork(n + 1 - i, titles[i])] :
            titles \in [1..n -> Titles]} : n \in 1..MaxRecords}

\* A publish is about to send its PUT; nothing else is going on.
InitWire ==
  /\ ServiceInit
  /\ manifest = Absent
  /\ AppInit
  /\ stored = NoEntry
  /\ \E items \in WireManifests :
       wire = [WireIdle EXCEPT
                 !.pc = "write",
                 !.updated = PublishContent(items[1], Tail(items))]

\* updateGalleryManifest, step 3: the content of the PUT is
\* utf8_to_b64(JSON.stringify(updatedArtworks, null, 2)); the store keeps
\* what it stands for.
WireWrite ==
  /\ wire.pc = "write"
  /\ LET content == utf8_to_b64(StringifyArtworks(wire.updated)) IN
       IF content.ok
         THEN wire' = [wire EXCEPT !.pc = "read",
                                   !.bytes = StoreKeeps(content.val)]
         ELSE wire' = [wire EXCEPT !.pc = "thrown"]
  /\ UNCHANGED <<svc, gallery, repoConfig, stored, appPc, boots, panel, save>>

\* fetchGalleryFromGitHub, OPTION 1: a 200 answer is cleaned, decoded
\* and parsed, and the result returned; a failed request, an error status
\* and an exception lead on to OPTION 2.
WireRead ==
  /\ wire.pc = "read"
  /\ \E out \in {"ok", "error", "neterr"} :
       LET jsonString == b64_to_utf8(CleanContent(StoreServes(wire.bytes)))
           data == IF jsonString.ok THEN ParseArtworks(jsonString.val)
                   ELSE Thrown
       IN IF out = "ok" /\ data.ok
            THEN wire' = [wire EXCEPT !.pc = "returned", !.got = data]
            ELSE wire' = [wire EXCEPT !.pc = "fallback_" \o out]
  /\ UNCHANGED <<svc, gallery, repoConfig, stored, appPc, boots, panel, save>>

NextWire ==
  \/ WireWrite
  \/ WireRead

SpecWire == InitWire /\ [][NextWire]_vars

(***************************************************************************)
(* Properties.                                                             *)
(***************************************************************************)
Last(seq) == seq[Len(seq)]

\* The version a write has to name for the store to accept it.
CurrentToken == IF manifest = Absent THEN NoSha ELSE ShaOf(manifest)

\* In this step, caller p sends its manifest write and gets the answer.
WritesManifest(p) == pc[p] \in {"pub_put", "del_put"} /\ pc'[p] # pc[p]

IsManifestPut(r) == r.method = "PUT" /\ r.target = "manifest"

ManifestPutAccepted(p) ==
  \E i \in 1..Len(reqs[p]) : IsManifestPut(reqs[p][i]) /\ reqs[p][i].out = "ok"

\* C1: a manifest write of a publish or a delete that carries a version
\* token which is no longer the current one is rejected: the stored
\* manifest stays as it is, and the operation ends in failure having sent
\* that one write only.
C1_StaleWriteRejected ==
  [][\A p \in Procs :
       (WritesManifest(p) /\ sha[p] # NoSha /\ sha[p] # CurrentToken)
         => /\ manifest' = manifest
            /\ pc'[p] = "done"
            /\ res'[p].st # "ok"
            /\ Len(reqs'[p]) = Len(reqs[p]) + 1
            /\ IsManifestPut(Last(reqs'[p]))
            /\ Last(reqs'[p]).out # "ok"]_vars

\* Two writers both read and both wrote: one write was accepted, the other
\* carried a token and was rejected.
C1_Witness ==
  \E p, q \in Procs :
    /\ p # q
    /\ pc[p] = "done" /\ pc[q] = "done"
    /\ ManifestPutAccepted(q)
    /\ res[q].st = "ok"
    /\ Len(reqs[p]) = 2
    /\ IsManifestPut(reqs[p][2])
    /\ reqs[p][2].out = "conflict"
    /\ reqs[p][2].sha # NoSha
    /\ res[p].st = "Failed to update gallery manifest"
    /\ manifest.kind = "array"

\* C2: a successful publish on a stored manifest M (or on no manifest)
\* leaves the stored manifest equal to the new record followed by the
\* records of M in their order.
C2_PublishPrepends ==
  [][\A p \in Procs :
       (/\ pc[p] = "pub_put"
        /\ pc'[p] = "done"
        /\ res'[p].st = "ok"
        /\ manifest.kind \in {"array", "absent"})
         => manifest' = ArrayFile(<<op[p].artwork>> \o manifest.items)]_vars

\* C3: when the manifest read of a publish returned not-found, the current
\* content is taken as empty, the write carries no version token, and a
\* successful write leaves a manifest of exactly the new record.
C3_NotFoundCreates ==
  [][\A p \in Procs :
       (pc[p] = "pub_put" /\ pc'[p] # pc[p] /\ reqs[p][1].out = "notfound")
         => /\ cur[p] = JsonArray(<<>>)
            /\ Last(reqs'[p]).sha = NoSha
            /\ res'[p].st = "ok" => manifest' = ArrayFile(<<op[p].artwork>>)]_vars

\* A publish that read not-found has created the manifest.
C3_Witness ==
  \E p \in Procs :
    /\ op[p].kind = "publish"
    /\ pc[p] = "done"
    /\ res[p].st = "ok"
    /\ reqs[p][1].out = "notfound"
    /\ reqs[p][2].sha = NoSha
    /\ manifest = ArrayFile(<<op[p].artwork>>)

\* C4: a delete whose manifest write is accepted, for an id that is in the
\* stored manifest of size N, leaves a manifest of size N-1: the same
\* records in the same order, without the record of that id.
C4_DeleteRemovesOne ==
  [][\A p \in Procs :
       (/\ pc[p] = "del_put"
        /\ pc'[p] # pc[p]
        /\ Last(reqs'[p]).out = "ok"
        /\ \E i \in 1..Len(manifest.items) :
              manifest.items[i].id = op[p].artwork.id)
         => /\ manifest'.kind = "array"
            /\ Len(manifest'.items) = Len(manifest.items) - 1
            /\ \E i \in 1..Len(manifest.items) :
                  /\ manifest.items[i].id = op[p].artwork.id
                  /\ manifest'.items =
                       SubSeq(manifest.items, 1, i - 1)
                         \o SubSeq(manifest.items, i + 1, Len(manifest.items))]_vars

\* The older of two records has been deleted; the newer one is left.
C4_Witness ==
  \E p \in Procs :
    /\ op[p].kind = "delete"
    /\ op[p].artwork.id = 1
    /\ ManifestPutAccepted(p)
    /\ reqs[p][1].sha = ArrayFile(<<Artwork(2, UrlCdn), Artwork(1, UrlRaw)>>)
    /\ manifest = ArrayFile(<<Artwork(2, UrlCdn)>>)

\* C5: a delete that has ended reports success exactly when its manifest
\* write was accepted, whatever became of the cleanup of the image file.
C5_SuccessIffManifestWritten ==
  \A p \in Procs :
    (op[p].kind = "delete" /\ pc[p] = "done")
      => (res[p].st = "ok" <=> ManifestPutAccepted(p))

\* A delete reported success although a request of its cleanup failed in
\* transport.
C5_Witness ==
  \E p \in Procs :
    /\ op[p].kind = "delete"
    /\ pc[p] = "done"
    /\ res[p].st = "ok"
    /\ Len(reqs[p]) >= 3
    /\ Last(reqs[p]).target = "asset"
    /\ Last(reqs[p]).out = "neterr"

ReadOk(r) == r.method = "GET" /\ r.target = "manifest" /\ r.out \in {"ok", "ok_nocontent"}

\* C6: a delete whose manifest read is not successful, or whose manifest
\* write is rejected, ends in failure with the store unchanged; it sends a
\* manifest write only after a successful read, and a request for the
\* image file only after its manifest write was accepted.
C6_DeleteFailsClosed ==
  [][\A p \in Procs :
       (op[p].kind = "delete" /\ Len(reqs'[p]) = Len(reqs[p]) + 1)
         => LET r == Last(reqs'[p]) IN
            /\ (r.target = "manifest" /\ ~ReadOk(r) /\ r.out # "ok")
                 => /\ pc'[p] = "done"
                    /\ res'[p].st \notin {"ok", "none"}
                    /\ store' = store
            /\ IsManifestPut(r) => (Len(reqs[p]) = 1 /\ ReadOk(reqs[p][1]))
            /\ r.target = "asset"
                 => /\ Len(reqs[p]) >= 2
                    /\ IsManifestPut(reqs[p][2])
                    /\ reqs[p][2].out = "ok"]_vars

\* A delete ended in failure on a rejected manifest write.
C6_Witness ==
  \E p \in Procs :
    /\ op[p].kind = "delete"
    /\ pc[p] = "done"
    /\ res[p].st = "Failed to update gallery list"
    /\ Len(reqs[p]) = 2
    /\ reqs[p][2].out = "conflict"
    /\ assets = {PathOfRaw, PathOfCdn}

WriteOps == {"upload", "publish", "delete"}

\* C7: an upload, publish or delete called without a token ends with the
\* authentication error, has sent no request, and leaves the store as it
\* was.
C7_NoTokenNoRequest ==
  [][\A p \in Procs :
       (op'[p].kind \in WriteOps /\ op'[p].config.token = "")
         => /\ pc'[p] = "done"
            /\ res'[p].st = "Authentication required"
            /\ reqs'[p] = <<>>
            /\ (<<pc[p], op[p], res[p]>> # <<pc'[p], op'[p], res'[p]>>)
                 => store' = store]_vars

\* Two operations called without a token have both been refused.
C7_Witness ==
  \E p, q \in Procs :
    /\ op[p].kind = "publish" /\ op[q].kind = "upload"
    /\ op[p].config.token = "" /\ op[q].config.token = ""
    /\ res[p].st = "Authentication required"
    /\ res[q].st = "Authentication required"
    /\ reqs[p] = <<>> /\ reqs[q] = <<>>

\* C8: every manifest write of a publish or a delete carries the version
\* token that the manifest read of the same operation returned, and it
\* carries none only when it creates a manifest that does not exist or
\* that the read reported as not found.
C8_WriteCarriesReadToken ==
  [][\A p \in Procs :
       WritesManifest(p)
         => LET w == Last(reqs'[p]) IN
            /\ w.sha = reqs[p][1].sha
            /\ w.sha = NoSha
                 => (manifest = Absent \/ reqs[p][1].out = "notfound")]_vars

\* The authenticated read ended without a manifest and without not-found:
\* transport failure, error status, or a 200 answer whose content is empty
\* or does not decode.
AuthReadFailed(r) ==
  \/ r.out \in {"neterr", "error", "ok_nocontent"}
  \/ r.out = "ok" /\ ~Decodes(r.sha)

\* C9: a fetch with a token first sends the authenticated read; on
\* not-found it returns an empty sequence and sends nothing else; the
\* mirror is asked only as the last request, at once when there is no
\* token and otherwise after the authenticated read has failed.
C9_SequentialFallback ==
  \A p \in Procs :
    op[p].kind = "fetch"
      => LET r == reqs[p] IN
         /\ \A i \in 1..Len(r) :
              r[i].target = "mirror"
                => /\ i = Len(r)
                   /\ IF op[p].config.token = ""
                        THEN i = 1
                        ELSE /\ i = 2
                             /\ r[1].target = "manifest"
                             /\ AuthReadFailed(r[1])
         /\ (op[p].config.token # "" /\ Len(r) >= 1)
              => (r[1].method = "GET" /\ r[1].target = "manifest")
         /\ (Len(r) >= 1 /\ r[1].target = "manifest" /\ r[1].out = "notfound")
              => /\ Len(r) = 1
                 /\ pc[p] = "done"
                 /\ res[p] = Returned(JsonArray(<<>>))

\* One fetch returned on not-found without asking the mirror, another fell
\* back to the mirror after an error status.
C9_Witness ==
  \E p, q \in Procs :
    /\ op[p].kind = "fetch" /\ op[q].kind = "fetch"
    /\ pc[p] = "done"
    /\ Len(reqs[p]) = 1 /\ reqs[p][1].out = "notfound"
    /\ Len(reqs[q]) = 2
    /\ reqs[q][1].out = "error"
    /\ reqs[q][2].target = "mirror"

\* C10: a fetch always completes normally, and what it returns after the
\* mirror read is an empty sequence when that read failed or its content
\* is not a sequence.
C10_FetchNeverThrows ==
  [][\A p \in Procs :
       op'[p].kind = "fetch"
         => /\ pc'[p] = "done" => res'[p].st = "ok"
            /\ (/\ pc[p] = "fetch_raw"
                /\ pc'[p] = "done"
                /\ (Last(reqs'[p]).out # "ok" \/ mirror.kind # "array"))
                 => res'[p].val = JsonArray(<<>>)]_vars

\* Both reads were answered with content that is not a manifest, and the
\* fetch returned an empty sequence.
C10_Witness ==
  \E p \in Procs :
    /\ op[p].kind = "fetch"
    /\ pc[p] = "done"
    /\ Len(reqs[p]) = 2
    /\ reqs[p][1].out = "ok"
    /\ reqs[p][2].out = "ok"
    /\ mirror.kind \in {"object", "badjson", "badutf8"}
    /\ res[p] = Returned(JsonArray(<<>>))

\* C11: after any sequence of publishes and deletes, every id occurs at
\* most once in the stored manifest.
C11_IdsUnique ==
  manifest.kind = "array"
    => \A i, j \in 1..Len(manifest.items) :
         manifest.items[i].id = manifest.items[j].id => i = j

\* A delete and then a publish were both accepted, and the manifest holds
\* two records.
C11_Witness ==
  \E p, q \in Procs :
    /\ op[p].kind = "publish" /\ op[q].kind = "delete"
    /\ res[p].st = "ok" /\ res[q].st = "ok"
    /\ ManifestPutAccepted(p) /\ ManifestPutAccepted(q)
    /\ manifest.kind = "array"
    /\ Len(manifest.items) = 2
    /\ manifest.items[1] = op[p].artwork

\* A request on the manifest path that failed: a read that failed in
\* transport or was answered with an error status other than not-found, a
\* read whose content does not decode or parse, or a write that was not
\* accepted.
ManifestPathFailure(r) ==
  /\ r.target = "manifest"
  /\ \/ r.method = "GET" /\ r.out \in {"neterr", "error"}
     \/ r.method = "GET" /\ r.out = "ok" /\ ~Decodes(r.sha)
     \/ r.method = "PUT" /\ r.out # "ok"

\* C12: a publish or a delete that met a failure on the manifest path does
\* not report success.
C12_ManifestFailureReported ==
  \A p \in Procs :
    (/\ op[p].kind \in {"publish", "delete"}
     /\ pc[p] = "done"
     /\ \E i \in 1..Len(reqs[p]) : ManifestPathFailure(reqs[p][i]))
      => res[p].st # "ok"

\* C13: for an image URL that is the mirror prefix of the configuration
\* followed by a store path under images/, the delete derives exactly that
\* path; and the URL an upload returns derives, under the same
\* configuration, the path the upload wrote.
C13_DerivesStorePath ==
  [][\A p \in Procs :
       /\ (/\ pc[p] = "del_put"
           /\ pc'[p] # pc[p]
           /\ Last(reqs'[p]).out = "ok"
           /\ StartsWith(op[p].artwork.imageUrl, RawPrefix(op[p].config))
           /\ op[p].artwork.imageUrl[Len(RawPrefix(op[p].config)) + 1] = "images")
            => /\ pc'[p] = "del_get_img"
               /\ RawPrefix(op[p].config) \o imagePath'[p] = op[p].artwork.imageUrl
       /\ (pc[p] = "upl_put" /\ pc'[p] = "done" /\ res'[p].st = "ok")
            => DerivePath(res'[p].url, op[p].config)
                 = [thrown |-> FALSE, path |-> imagePath[p]]]_vars

\* C14: a delete sends the DELETE of the image file only when a path was
\* derived from the image URL and the read of that file succeeded, and the
\* DELETE carries the token that read returned; an image file leaves the
\* store only in such a step.
C14_AssetDeleteGuarded ==
  [][/\ \A p \in Procs :
          (/\ op[p].kind = "delete"
           /\ Len(reqs'[p]) = Len(reqs[p]) + 1
           /\ Last(reqs'[p]).method = "DELETE")
            => LET g == Last(reqs[p])
                   d == DerivePath(op[p].artwork.imageUrl, op[p].config)
               IN /\ ~d.thrown
                  /\ d.path # <<>>
                  /\ d.path = imagePath[p]
                  /\ g.method = "GET" /\ g.target = "asset" /\ g.out = "ok"
                  /\ g.sha = BlobSha(imagePath[p])
                  /\ Last(reqs'[p]).sha = g.sha
     /\ \A path \in assets \ assets' :
          \E p \in Procs :
            /\ pc[p] = "del_delete_img"
            /\ imagePath[p] = path
            /\ Last(reqs'[p]).method = "DELETE"
            /\ Last(reqs'[p]).out = "ok"]_vars

\* A delete has read the image file, sent the DELETE with the token of that
\* read, and the file is gone from the store.
C14_Witness ==
  \E p \in Procs :
    /\ op[p].kind = "delete"
    /\ pc[p] = "done"
    /\ Len(reqs[p]) = 4
    /\ reqs[p][3].target = "asset" /\ reqs[p][3].out = "ok"
    /\ reqs[p][4].method = "DELETE" /\ reqs[p][4].out = "ok"
    /\ reqs[p][4].sha = reqs[p][3].sha
    /\ PathOfRaw \notin assets

\* C15: no upload replaces an image file that is in the store: every
\* successful upload creates a path that did not exist before, also when
\* files of the same name are uploaded.
C15_UploadCreates ==
  [][\A p \in Procs :
       (pc[p] = "upl_put" /\ pc'[p] = "done" /\ res'[p].st = "ok")
         => /\ imagePath[p] \notin assets
            /\ assets' = assets \cup {imagePath[p]}
            /\ Last(reqs'[p]).sha = NoSha]_vars

\* Two uploads of the same file name were made at the same time of the
\* clock: one created the file, the other was refused.
C15_Witness ==
  \E p, q \in Procs :
    /\ p # q
    /\ op[p].kind = "upload" /\ op[q].kind = "upload"
    /\ op[p].file = op[q].file
    /\ pc[p] = "done" /\ pc[q] = "done"
    /\ res[p].st = "ok"
    /\ res[p].url[Len(res[p].url)] = "1-a.jpg"
    /\ <<"images", "1-a.jpg">> \in assets
    /\ res[q].st = "Failed to upload image"
    /\ reqs[q][1].out = "conflict"

\* C16: after startup the active configuration and the entry in local
\* storage change only in the last step of a saveSettings whose
\* verifyRepoAccess returned true for the values that are saved; when the
\* verification returns false, both stay as they are and the error is set.
C16_ConfigOnlyAfterVerification ==
  [][/\ (repoConfig' # repoConfig \/ stored' # stored)
          => \/ /\ appPc = "boot" /\ appPc' = "ready"
                /\ stored' = stored
             \/ /\ appPc' = "boot" /\ boots' = boots + 1
                /\ stored' = stored
                /\ repoConfig' = PUBLIC_REPO_CONFIG
             \/ /\ appPc = "ready" /\ appPc' = "ready"
                /\ save.pc = "details" /\ save'.pc = "idle"
                /\ save.isValid
                /\ HasToken(save.config)
                /\ repoConfig' = save.config
                /\ stored' = JsonStringify(save.config)
     /\ (save.pc = "verify" /\ save'.pc = "idle" /\ boots' = boots)
          => /\ ~save'.isValid
             /\ repoConfig' = repoConfig
             /\ stored' = stored
             /\ panel'.error = AccessError]_vars

\* A configuration typed into the form was verified and saved: it is the
\* active one and the one in local storage.
C16_Witness ==
  /\ boots = 1
  /\ save.pc = "idle"
  /\ save.isValid
  /\ panel.configSuccess
  /\ repoConfig = save.config
  /\ repoConfig.branch = "dev"
  /\ repoConfig # panel.localConfig
  /\ stored = JsonStringify(save.config)

C18_WriteReadRoundTrip ==
  [][/\ wire.pc = "write" => wire'.pc = "read"
     /\ (wire.pc = "read" /\ wire'.pc # "read")
          => \/ wire'.pc \in {"fallback_error", "fallback_neterr"}
             \/ /\ wire'.pc = "returned"
                /\ wire'.got = Value(wire.updated)
                /\ wire'.got.val[1] = wire.updated[1]]_vars

\* A manifest of two records, the new one titled "Café au Lait", has been
\* written and read back.
C18_Witness ==
  /\ wire.pc = "returned"
  /\ Len(wire.got.val) = 2
  /\ wire.got.val[1] = TitledArtwork(2, CafeAuLait)
  /\ wire.got.val[2].title = <<128512>>

\* C19: once started, every publish sequence (upload, then manifest
\* update) and every delete sequence ends with an outcome, success or a
\* reported failure, when every request is answered.
InSequence(p) == pc[p] \notin {"idle", "done"} \/ Uploaded(p)

Outcome(p) == pc[p] = "done" /\ ~Uploaded(p) /\ res[p].st # "none"

C19_SequencesEnd == \A p \in Procs : InSequence(p) ~> Outcome(p)

C19_Witness ==
  /\ Outcome("w1") /\ op["w1"].kind = "publish" /\ res["w1"].st = "ok"
  /\ Len(reqs["w1"]) = 2
  /\ Outcome("w2") /\ op["w2"].kind = "delete" /\ res["w2"].st = "ok"
  /\ Len(reqs["w2"]) = 4

\* C20: whatever the answer to the read of updateGalleryManifest was, the
\* manifest that its PUT stores holds every record that the stored
\* manifest held when the operation read it.  An accepted PUT names the
\* version that was read, or names none and finds no file, and no
\* operation removes the file, so the manifest that was read is the one
\* that the PUT replaces.
C20_PublishKeepsStoredRecords ==
  [][\A p \in Procs :
       (pc[p] = "pub_put" /\ pc'[p] = "done" /\ manifest' # manifest)
         => \A i \in 1..Len(manifest.items) :
              \E j \in 1..Len(manifest'.items) :
                manifest'.items[j] = manifest.items[i]]_vars

\* The image files that the running or last delete of caller p removed.
RemovedBy(p) ==
  {reqs[p][i].sha.path :
     i \in {k \in 1..Len(reqs[p]) :
              reqs[p][k].method = "DELETE" /\ reqs[p][k].out = "ok"}}

\* The record refers to the image file at path, as the delete derives it.
RefersTo(artwork, path, config) ==
  DerivePath(artwork.imageUrl, config) = [thrown |-> FALSE, path |-> path]

\* C21: no record of the stored manifest refers to an image file that a
\* delete removed: the file is removed only after the manifest has dropped
\* its record, so a failure leaves at most a file without a record.
C21_NoRecordWithoutAsset ==
  \A p \in Procs : \A path \in RemovedBy(p) :
    \A i \in 1..Len(manifest.items) :
      ~RefersTo(manifest.items[i], path, op[p].config)

\* A delete removed the image file of one record while the manifest keeps
\* another record, whose image file is still stored.
C21_Witness ==
  \E p \in Procs :
    /\ RemovedBy(p) = {PathOfRaw}
    /\ manifest = ArrayFile(<<Artwork(2, UrlCdn)>>)
    /\ PathOfCdn \in assets

\* C22: whatever the store and the mirror answer, a fetch returns a
\* sequence of records, on the authenticated path as well as on the mirror
\* path.
C22_FetchReturnsSequence ==
  \A p \in Procs :
    (op[p].kind = "fetch" /\ pc[p] = "done") => res[p].val.kind = "array"

\* The path in the store of the image file that an upload returned url for.
StoredPath(url, config) ==
  SubSeq(url, Len(RawPrefix(config)) + 1, Len(url))

\* C23: handlePublish calls updateGalleryManifest only after the upload
\* succeeded, with the URL that the upload returned, so after a failed
\* upload no manifest request follows; a failed upload leaves the stored
\* manifest as it was; and a record that this flow stores refers to an
\* image file that is stored.
C23_PublishAfterUpload ==
  [][\A p \in Procs :
       /\ (op'[p].kind = "publish" /\ op'[p] # op[p])
            => /\ op[p].kind = "upload" /\ pc[p] = "done" /\ res[p].st = "ok"
               /\ Last(reqs[p]) = Req("PUT", "asset", NoSha, "ok")
               /\ op'[p].artwork.imageUrl = res[p].url
               /\ StoredPath(res[p].url, op[p].config) \in assets
       /\ (pc[p] = "upl_put" /\ pc'[p] = "done" /\ res'[p].st # "ok")
            => manifest' = manifest
       /\ (pc[p] = "pub_put" /\ pc'[p] = "done" /\ manifest' # manifest)
            => /\ manifest'.items[1] = op[p].artwork
               /\ StoredPath(op[p].artwork.imageUrl, op[p].config) \in assets]_vars

\* One publish stored its record after its upload, and another ended on a
\* refused upload without a request for the manifest.
C23_Witness ==
  \E p, q \in Procs :
    /\ op[p].kind = "publish" /\ pc[p] = "done" /\ res[p].st = "ok"
    /\ manifest.kind = "array" /\ Len(manifest.items) >= 1
    /\ manifest.items[1] = op[p].artwork
    /\ StoredPath(op[p].artwork.imageUrl, op[p].config) \in assets
    /\ op[q].kind = "upload" /\ pc[q] = "done"
    /\ res[q].st = "Failed to upload image"
    /\ Len(reqs[q]) = 1

\* C24: the view becomes ADMIN only in a submission of the login form
\* with the password field equal to the artist password; a submission
\* with any other text leaves the view as it is and sets the login error.
C24_AdminOnlyByPassword ==
  [][/\ (viewMode' = "ADMIN" /\ viewMode # "ADMIN")
          => /\ viewMode = "LOGIN"
             /\ passwordInput = ARTIST_PASSWORD
             /\ passwordInput' = ""
             /\ loginError' = NoError
     /\ (handleLogin /\ passwordInput # ARTIST_PASSWORD)
          => /\ viewMode' = viewMode
             /\ loginError' = IncorrectPassword]_vars

\* After a visit to the admin panel, which refreshed the list, a
\* submission with another text was turned down.
C24_Witness ==
  /\ stored = NoEntry
  /\ started = 2
  /\ viewMode = "LOGIN"
  /\ passwordInput = "x"
  /\ loginError = IncorrectPassword

NonEmpty(list) == list.kind = "array" /\ Len(list.items) > 0

\* C25: the displayed list is replaced only by the result of a load, and
\* only by a result that is not empty; a load whose fetch returned an empty
\* sequence leaves it as it is, so a list that is not empty never becomes
\* empty.
C25_OnlyNonEmptyReplaces ==
  [][/\ artworks' # artworks
          => \E p \in loads :
               /\ pc[p] = "done"
               /\ p \notin loads'
               /\ NonEmpty(res[p].val)
               /\ artworks' = res[p].val
     /\ \A p \in loads \ loads' :
          res[p].val = JsonArray(<<>>) => artworks' = artworks
     /\ NonEmpty(artworks) => NonEmpty(artworks')]_vars

\* One caller ran the load after the first render, which filled the list,
\* and then a refresh with the token, whose fetch returned an empty
\* sequence; the list is as the first load left it.
C25_Witness ==
  \E p, q \in Procs :
    /\ p # q
    /\ pc[q] = "idle"
    /\ started = 2
    /\ loads = {}
    /\ pc[p] = "done"
    /\ HasToken(op[p].config)
    /\ res[p].val = JsonArray(<<>>)
    /\ artworks = JsonArray(<<Artwork(1, UrlRaw)>>)

\* C26: when every request is answered, a loading flag that a load has
\* set is cleared again, whatever the fetch returned.
C26_LoadingEnds == isLoadingData ~> ~isLoadingData

\* C27: once the load effect has run for the active configuration and no
\* load is in flight, the displayed list is what the fetch for that
\* configuration returned, in whatever order the answers arrived.  The
\* case of a fetch that returned an empty sequence, which replaces
\* nothing, is left out.
C27_LatestConfigShown ==
  (EffectsRun /\ loads = {})
    => \A p \in Procs :
         (/\ op[p].kind = "fetch"
          /\ pc[p] = "done"
          /\ Deps(op[p].config) = Deps(repoConfig)
          /\ NonEmpty(res[p].val))
           => artworks = res[p].val

====
